---- MODULE Spec2Model ----
(***************************************************************************)
(* A model of the in-memory Kademlia network of src/src/main.rs: the XOR   *)
(* metric, the per-node LRU peer list, the four RPC handlers, the          *)
(* forwarding layer of Network and the three iterative procedures          *)
(* (find_node, find_value, store), stepped one queried peer at a time.     *)
(***************************************************************************)
EXTENDS Integers, Sequences, FiniteSets, TLC

(* ------------------------------------------------------------------ *)
(* Program constants (main.rs lines 7-11).                            *)
(* ------------------------------------------------------------------ *)
K == 8
ALPHA == 3
MAX_STEPS == 8

(* ------------------------------------------------------------------ *)
(* Bounds of the model.                                               *)
(* ------------------------------------------------------------------ *)
\* A NodeId is an array of IdLen bytes, each byte in 0..ByteMax.
IdLen == 2
ByteMax == 3
\* The identifiers of the small network are those numbered 0..MaxId.
MaxId == 2
\* Keys are opaque byte strings, numbered 0..MaxKey; values 1..MaxVal.
MaxKey == 1
\* The keys the calls of Spec and SpecLookup are made with: 0..MaxCallKey.
MaxCallKey == 0
MaxVal == 2
\* Top-level calls made on the network built from scratch.
MaxOps == 3
\* Seeded networks: identifiers 0..MaxSmallId (two procedures are run) and
\* 0..MaxBigId (one procedure is run).
MaxSmallId == 4
MaxBigId == 9
\* main's three nodes draw distinct identifiers among 0..MaxMainId.
MaxMainId == 7

VARIABLES
    nodes,        \* Network.nodes: registered id -> Node [id, storage, peers]
    pc,           \* position of the running iterative procedure, or "idle"
    mode,         \* "NONE", "FIND_NODE", "FIND_VALUE" or "STORE"
    start,        \* the procedure's start id
    key,          \* its key (for FIND_VALUE and STORE)
    value,        \* its value (for STORE)
    target,       \* the id looked up: target, or key_id
    queried,      \* local queried of the running procedure
    shortlist,    \* local shortlist
    batch,        \* the part of the round's batch still to be queried
    step,         \* the _step of the for loop (rounds begun so far)
    any_progress, \* local any_progress of the round
    closest,      \* iterative_store: the store targets still to be sent to
    found,        \* result of iterative_find_value (NoValue: None)
    ret,          \* result of iterative_find_node
    trace,        \* history: the RPCs delivered by the current top-level call
    nodes0,       \* history: Network.nodes when the current call began
    round0,       \* history: shortlist when the current round began
    prev,         \* history: the top-level call completed just before
    ops,          \* number of top-level calls the driver still makes
    script        \* the calls main still has to make

vars == <<nodes, pc, mode, start, key, value, target, queried, shortlist,
          batch, step, any_progress, closest, found, ret, trace, nodes0,
          round0, prev, ops, script>>

lookupVars == <<mode, start, key, value, target, queried, shortlist, batch,
                step, any_progress, closest, found, ret, round0>>

(* ------------------------------------------------------------------ *)
(* Identifiers and the XOR metric.                                    *)
(* ------------------------------------------------------------------ *)
Base == ByteMax + 1

RECURSIVE Pow(_, _)
Pow(b, e) == IF e = 0 THEN 1 ELSE b * Pow(b, e - 1)

\* NodeId::from_bytes of the big-endian bytes of the number n.
from_bytes(n) == [i \in 1..IdLen |-> (n \div Pow(Base, IdLen - i)) % Base]

Ids == {from_bytes(n) : n \in 0..MaxId}
Keys == 0..MaxKey
CallKeys == 0..MaxCallKey
Values == 1..MaxVal
NoValue == 0

\* u8 ^ u8, bit by bit.
RECURSIVE BitXor(_, _)
BitXor(a, b) ==
    IF a = 0 THEN b
    ELSE IF b = 0 THEN a
    ELSE (((a % 2) + (b % 2)) % 2) + (2 * BitXor(a \div 2, b \div 2))

xor_distance(self, other) == [i \in 1..IdLen |-> BitXor(self[i], other[i])]

\* The first byte that differs decides; the loop runs over i = 0..20.
RECURSIVE compare_from(_, _, _)
compare_from(a, b, i) ==
    IF i > IdLen THEN "Equal"
    ELSE IF a[i] < b[i] THEN "Less"
    ELSE IF a[i] > b[i] THEN "Greater"
    ELSE compare_from(a, b, i + 1)

compare_distances(a, b) == compare_from(a, b, 1)

\* Sha1::digest(key)[..20]: a fixed function from keys to identifiers.
key_to_id(k) == from_bytes((3 + (5 * k)) % Pow(Base, IdLen))

(* ------------------------------------------------------------------ *)
(* Vec helpers.                                                       *)
(* ------------------------------------------------------------------ *)
contains(list, x) == \E i \in 1..Len(list) : list[i] = x

\* iter().position(|p| p == x) for an x the list contains (1-based).
position(list, x) == CHOOSE i \in 1..Len(list) :
    list[i] = x /\ \A j \in 1..(i - 1) : list[j] # x

remove(list, pos) == SubSeq(list, 1, pos - 1) \o SubSeq(list, pos + 1, Len(list))

truncate(list, n) == IF Len(list) > n THEN SubSeq(list, 1, n) ELSE list

\* The comparator of both sort_by calls: by XOR distance to target.
by_distance(tgt, a, b) ==
    compare_distances(xor_distance(tgt, a), xor_distance(tgt, b))

\* sort_by is a stable sort: x goes after every element not greater than it.
insert_sorted(tgt, sorted, x) ==
    LET n == Cardinality({i \in 1..Len(sorted) :
                             by_distance(tgt, sorted[i], x) # "Greater"})
    IN SubSeq(sorted, 1, n) \o <<x>> \o SubSeq(sorted, n + 1, Len(sorted))

RECURSIVE sort_by(_, _)
sort_by(tgt, list) ==
    IF list = <<>> THEN <<>>
    ELSE insert_sorted(tgt, sort_by(tgt, SubSeq(list, 1, Len(list) - 1)),
                       list[Len(list)])

(* ------------------------------------------------------------------ *)
(* Node: the peer list and the four RPC handlers.                     *)
(* ------------------------------------------------------------------ *)
\* Node::new, with the identifier NodeId::random() drew.
new_node(id) == [id |-> id, storage |-> [k \in Keys |-> NoValue], peers |-> <<>>]

\* Mutant: the check against the node's own id is missing.
track_peer_noself(node, peer) ==
    IF contains(node.peers, peer)
    THEN LET pos == position(node.peers, peer)
         IN [node EXCEPT !.peers = Append(remove(node.peers, pos), node.peers[pos])]
    ELSE LET pushed == Append(node.peers, peer)
         IN [node EXCEPT !.peers = IF Len(pushed) > K THEN remove(pushed, 1)
                                                      ELSE pushed]

\* Mutant: a new peer is pushed and nothing is ever evicted.
track_peer_unbounded(node, peer) ==
    IF peer = node.id THEN node
    ELSE IF contains(node.peers, peer)
    THEN LET pos == position(node.peers, peer)
         IN [node EXCEPT !.peers = Append(remove(node.peers, pos), node.peers[pos])]
    ELSE [node EXCEPT !.peers = Append(node.peers, peer)]

\* Mutant: a peer already present is left where it is.
track_peer_in_place(node, peer) ==
    IF peer = node.id \/ contains(node.peers, peer) THEN node
    ELSE LET pushed == Append(node.peers, peer)
         IN [node EXCEPT !.peers = IF Len(pushed) > K THEN remove(pushed, 1)
                                                      ELSE pushed]

\* Mutant: promoting a peer already present also drops the oldest entry.
track_peer_evicting(node, peer) ==
    IF peer = node.id THEN node
    ELSE IF contains(node.peers, peer)
    THEN LET pos == position(node.peers, peer)
             moved == Append(remove(node.peers, pos), node.peers[pos])
         IN [node EXCEPT !.peers = IF Len(moved) > 1 THEN remove(moved, 1)
                                                     ELSE moved]
    ELSE LET pushed == Append(node.peers, peer)
         IN [node EXCEPT !.peers = IF Len(pushed) > K THEN remove(pushed, 1)
                                                      ELSE pushed]

track_peer(node, peer) ==
    IF peer = node.id THEN node
    ELSE IF contains(node.peers, peer)
    THEN LET pos == position(node.peers, peer)
             existing == node.peers[pos]
         IN [node EXCEPT !.peers = Append(remove(node.peers, pos), existing)]
    ELSE LET pushed == Append(node.peers, peer)
         IN [node EXCEPT !.peers = IF Len(pushed) > K THEN remove(pushed, 1)
                                                      ELSE pushed]

\* Each handler yields the node after the call and the value returned.
rpc_ping(node, from) ==
    [node |-> track_peer(node, from), ret |-> TRUE]

\* Mutant: inserting the value drops what was stored under the other keys.
rpc_store_wiping(node, from, k, v) ==
    LET tracked == track_peer(node, from)
    IN [node |-> [tracked EXCEPT !.storage = [x \in Keys |->
                                     IF x = k THEN v ELSE NoValue]],
        ret |-> TRUE]

\* Mutant: the caller is recorded and the value is not inserted.
rpc_store_dropped(node, from, k, v) ==
    [node |-> track_peer(node, from), ret |-> TRUE]

rpc_store(node, from, k, v) ==
    LET tracked == track_peer(node, from)
    IN [node |-> [tracked EXCEPT !.storage[k] = v], ret |-> TRUE]

rpc_find_value(node, from, k) ==
    LET tracked == track_peer(node, from)
    IN [node |-> tracked, ret |-> tracked.storage[k]]

\* Mutant: the caller of find_node is not recorded.
rpc_find_node_untracked(node, from, tgt) ==
    [node |-> node, ret |-> truncate(sort_by(tgt, node.peers), K)]

\* Mutant: the answer is made from the list as it was before the touch.
rpc_find_node_stale(node, from, tgt) ==
    [node |-> track_peer(node, from),
     ret |-> truncate(sort_by(tgt, node.peers), K)]

\* Mutant: the answer is the peer list in recency order, unsorted.
rpc_find_node_unsorted(node, from, tgt) ==
    LET tracked == track_peer(node, from)
    IN [node |-> tracked, ret |-> truncate(tracked.peers, K)]

rpc_find_node(node, from, tgt) ==
    LET tracked == track_peer(node, from)
    IN [node |-> tracked, ret |-> truncate(sort_by(tgt, tracked.peers), K)]

(* ------------------------------------------------------------------ *)
(* Network: helpers and RPC forwarding. A forwarder yields the map of *)
(* nodes after the call, whether the callee exists (Some/None) and    *)
(* the handler's return value.                                        *)
(* ------------------------------------------------------------------ *)
\* Mutant: a missing node is reported as a node that answered nothing.
Unreachable_as_empty(ns) == [nodes |-> ns, some |-> TRUE, ret |-> <<>>]

Unreachable(ns) == [nodes |-> ns, some |-> FALSE, ret |-> FALSE]

Delivered(ns, to, r) ==
    [nodes |-> [ns EXCEPT ![to] = r.node], some |-> TRUE, ret |-> r.ret]

snapshot_peers(ns, id) == IF id \in DOMAIN ns THEN ns[id].peers ELSE <<>>

\* Mutant: the candidates are cut to K without being sorted.
closest_k_unsorted(tgt, candidates) == truncate(candidates, K)

closest_k(tgt, candidates) == truncate(sort_by(tgt, candidates), K)

ping(ns, from, to) ==
    IF to \notin DOMAIN ns THEN Unreachable(ns)
    ELSE Delivered(ns, to, rpc_ping(ns[to], from))

\* Mutant: the store call is not forwarded to the node.
store_lost(ns, from, to, k, v) == Unreachable(ns)

store(ns, from, to, k, v) ==
    IF to \notin DOMAIN ns THEN Unreachable(ns)
    ELSE Delivered(ns, to, rpc_store(ns[to], from, k, v))

find_value(ns, from, to, k) ==
    IF to \notin DOMAIN ns THEN Unreachable(ns)
    ELSE Delivered(ns, to, rpc_find_value(ns[to], from, k))

find_node(ns, from, to, tgt) ==
    IF to \notin DOMAIN ns THEN Unreachable(ns)
    ELSE Delivered(ns, to, rpc_find_node(ns[to], from, tgt))

\* The map after add_node registered a node with identifier id.
insert_node(ns, id) ==
    [x \in (DOMAIN ns) \cup {id} |-> IF x = id THEN new_node(id) ELSE ns[x]]

(* ------------------------------------------------------------------ *)
(* The pieces of the iterative procedures.                            *)
(* ------------------------------------------------------------------ *)
\* Lines 199-203: the start's peers, the start itself if absent, closest K.
initial_shortlist(ns, s, tgt) ==
    LET snap == snapshot_peers(ns, s)
    IN closest_k(tgt, IF contains(snap, s) THEN snap ELSE Append(snap, s))

\* Mutant: the batch is picked without regard to what was queried.
RECURSIVE pick_batch_requery(_, _, _)
pick_batch_requery(list, done, acc) ==
    IF list = <<>> THEN acc
    ELSE IF Len(acc) + 1 = ALPHA THEN Append(acc, Head(list))
    ELSE pick_batch_requery(Tail(list), done, Append(acc, Head(list)))

\* Lines 207-213: up to ALPHA not-yet-queried entries, in shortlist order.
RECURSIVE pick_batch(_, _, _)
pick_batch(list, done, acc) ==
    IF list = <<>> THEN acc
    ELSE LET acc2 == IF contains(done, Head(list)) THEN acc
                     ELSE Append(acc, Head(list))
         IN IF Len(acc2) = ALPHA THEN acc2
            ELSE pick_batch(Tail(list), done, acc2)

\* Lines 221-225: push every neighbour the shortlist does not hold yet.
RECURSIVE merge_neighbors(_, _)
merge_neighbors(list, neighbors) ==
    IF neighbors = <<>> THEN list
    ELSE merge_neighbors(IF contains(list, Head(neighbors)) THEN list
                         ELSE Append(list, Head(neighbors)),
                         Tail(neighbors))

\* Mutant: a value a peer returns is passed over.
value_found_ignored(m, fv) == FALSE

\* Lines 259-261: find_value reached a node and the node had a value.
value_found(m, fv) == m = "FIND_VALUE" /\ fv.some /\ fv.ret # NoValue

\* Mutant: the loop runs one iteration too many.
more_steps_off_by_one(n) == n <= MAX_STEPS

\* Line 205: whether the for loop runs another iteration.
more_steps(n) == n < MAX_STEPS

\* Node.storage of the node id, if it is registered.
snapshot_storage(ns, id) == IF id \in DOMAIN ns THEN ns[id].storage ELSE <<>>

\* The record of one delivered (or undeliverable) RPC: the call, the peer
\* list and the storage of its addressee before and after it, whether every
\* other node is as it was, and the value returned.
Rpc(op, from, to, arg, ns, r) ==
    [op |-> op, from |-> from, to |-> to, arg |-> arg, some |-> r.some,
     before |-> snapshot_peers(ns, to), after |-> snapshot_peers(r.nodes, to),
     sbefore |-> snapshot_storage(ns, to),
     safter |-> snapshot_storage(r.nodes, to),
     others |-> /\ DOMAIN r.nodes = DOMAIN ns
                /\ \A a \in (DOMAIN ns) \ {to} : r.nodes[a] = ns[a],
     resp |-> r.ret]

(* ------------------------------------------------------------------ *)
(* The state machine.                                                 *)
(* ------------------------------------------------------------------ *)
NoNodes == [x \in {} |-> new_node(x)]

NoPrev == [mode |-> "NONE", start |-> <<>>, key |-> 0, value |-> NoValue,
           target |-> <<>>, found |-> NoValue, ret |-> <<>>, full |-> FALSE,
           changed |-> FALSE]

\* Every node's peer list holds every other registered node.
FullyConnected(ns) ==
    \A a \in DOMAIN ns : \A b \in DOMAIN ns :
        a # b => contains(ns[a].peers, b)

\* The locals of the iterative procedures when none is running.
LookupIdle ==
    /\ mode = "NONE" /\ start = <<>> /\ key = 0 /\ value = NoValue
    /\ target = <<>> /\ queried = <<>> /\ shortlist = <<>> /\ batch = <<>>
    /\ step = 0 /\ any_progress = FALSE /\ closest = <<>>
    /\ found = NoValue /\ ret = <<>> /\ round0 = <<>>

\* What is left of main's calls once the next one is made.
Rest(calls) == IF calls = <<>> THEN <<>> ELSE Tail(calls)

\* Network::new().
Init ==
    /\ nodes = NoNodes
    /\ pc = "idle"
    /\ LookupIdle
    /\ trace = <<>>
    /\ nodes0 = NoNodes
    /\ prev = NoPrev
    /\ ops = MaxOps
    /\ script = <<>>

\* add_node, the fresh node having drawn the unused identifier id.
AddNode(id) ==
    /\ pc = "idle"
    /\ ops > 0
    /\ id \notin DOMAIN nodes
    /\ nodes' = insert_node(nodes, id)
    /\ trace' = <<>>
    /\ nodes0' = nodes
    /\ prev' = NoPrev
    /\ ops' = ops - 1
    /\ script' = Rest(script)
    /\ UNCHANGED <<pc, lookupVars>>

\* A top-level RPC through the forwarding layer, r being what it yields.
Direct(op, from, to, arg, r) ==
    /\ pc = "idle"
    /\ ops > 0
    /\ nodes' = r.nodes
    /\ trace' = <<Rpc(op, from, to, arg, nodes, r)>>
    /\ nodes0' = nodes
    /\ prev' = NoPrev
    /\ ops' = ops - 1
    /\ script' = Rest(script)
    /\ UNCHANGED <<pc, lookupVars>>

Ping(from, to) == Direct("ping", from, to, 0, ping(nodes, from, to))

Store(from, to, k, v) ==
    Direct("store", from, to, <<k, v>>, store(nodes, from, to, k, v))

FindValue(from, to, k) ==
    Direct("find_value", from, to, k, find_value(nodes, from, to, k))

FindNode(from, to, tgt) ==
    Direct("find_node", from, to, tgt, find_node(nodes, from, to, tgt))

\* Entry of an iterative procedure, up to the for loop (lines 198-203).
Begin(m, s, k, v, tgt) ==
    /\ pc = "idle"
    /\ ops > 0
    /\ mode' = m
    /\ start' = s
    /\ key' = k
    /\ value' = v
    /\ target' = tgt
    /\ queried' = <<>>
    /\ shortlist' = initial_shortlist(nodes, s, tgt)
    /\ batch' = <<>>
    /\ step' = 0
    /\ any_progress' = FALSE
    /\ closest' = <<>>
    /\ found' = NoValue
    /\ ret' = <<>>
    /\ round0' = <<>>
    /\ trace' = <<>>
    /\ nodes0' = nodes
    /\ pc' = "round"
    /\ ops' = ops - 1
    /\ script' = Rest(script)
    /\ UNCHANGED <<nodes, prev>>

IterativeFindNode(s, tgt) == Begin("FIND_NODE", s, 0, NoValue, tgt)

IterativeFindValue(s, k) == Begin("FIND_VALUE", s, k, NoValue, key_to_id(k))

IterativeStore(s, k, v) == Begin("STORE", s, k, v, key_to_id(k))

\* The head of the for loop and the selection of the batch (lines 205-216).
BeginRound ==
    /\ pc = "round"
    /\ LET picked == pick_batch(shortlist, queried, <<>>)
       IN IF more_steps(step) /\ picked # <<>>
          THEN /\ batch' = picked
               /\ any_progress' = FALSE
               /\ round0' = shortlist
               /\ step' = step + 1
               /\ pc' = "query"
          ELSE /\ pc' = "final"
               /\ UNCHANGED <<batch, any_progress, round0, step>>
    /\ UNCHANGED <<nodes, mode, start, key, value, target, queried, shortlist,
                   closest, found, ret, trace, nodes0, prev, ops, script>>

\* One iteration of `for n in batch` (lines 217-230, 257-272).
QueryPeer ==
    /\ pc = "query"
    /\ batch # <<>>
    /\ LET n == Head(batch)
           fv == IF mode = "FIND_VALUE" THEN find_value(nodes, start, n, key)
                 ELSE Unreachable(nodes)
           hit == value_found(mode, fv)
           fn == find_node(fv.nodes, start, n, target)
           merged == merge_neighbors(shortlist, fn.ret)
           sorted == closest_k(target, merged)
           tr1 == IF mode = "FIND_VALUE"
                  THEN Append(trace, Rpc("find_value", start, n, key, nodes, fv))
                  ELSE trace
       IN /\ queried' = Append(queried, n)
          /\ IF hit
             THEN /\ found' = fv.ret
                  /\ nodes' = fv.nodes
                  /\ trace' = tr1
                  /\ pc' = "done"
                  /\ UNCHANGED <<shortlist, any_progress, batch>>
             ELSE /\ nodes' = fn.nodes
                  /\ trace' = Append(tr1, Rpc("find_node", start, n, target,
                                              fv.nodes, fn))
                  /\ shortlist' = IF fn.some THEN sorted ELSE shortlist
                  /\ any_progress' = (any_progress \/ (fn.some /\ sorted # merged))
                  /\ batch' = Tail(batch)
                  /\ UNCHANGED <<found, pc>>
    /\ UNCHANGED <<mode, start, key, value, target, step, closest, ret,
                   nodes0, round0, prev, ops, script>>

\* The end of a round: `if !any_progress { break; }` (lines 231, 273).
EndRound ==
    /\ pc = "query"
    /\ batch = <<>>
    /\ pc' = IF any_progress THEN "round" ELSE "final"
    /\ UNCHANGED <<nodes, lookupVars, trace, nodes0, prev, ops, script>>

\* After the loop: lines 233, 275 and 281-282.
Finalize ==
    /\ pc = "final"
    /\ ret' = IF mode = "FIND_VALUE" THEN <<>> ELSE closest_k(target, shortlist)
    /\ closest' = IF mode = "STORE" THEN closest_k(target, shortlist) ELSE <<>>
    /\ pc' = IF mode = "STORE" THEN "store" ELSE "done"
    /\ UNCHANGED <<nodes, mode, start, key, value, target, queried, shortlist,
                   batch, step, any_progress, found, round0, trace, nodes0,
                   prev, ops, script>>

\* One iteration of `for target in closest` (lines 282-284).
StoreNext ==
    /\ pc = "store"
    /\ closest # <<>>
    /\ LET r == store(nodes, start, Head(closest), key, value)
       IN /\ nodes' = r.nodes
          /\ trace' = Append(trace, Rpc("store", start, Head(closest),
                                        <<key, value>>, nodes, r))
    /\ closest' = Tail(closest)
    /\ UNCHANGED <<pc, mode, start, key, value, target, queried, shortlist,
                   batch, step, any_progress, found, ret, round0, nodes0,
                   prev, ops, script>>

StoreDone ==
    /\ pc = "store"
    /\ closest = <<>>
    /\ pc' = "done"
    /\ UNCHANGED <<nodes, lookupVars, trace, nodes0, prev, ops, script>>

\* The procedure returns to its caller; its locals are dropped.
Return ==
    /\ pc = "done"
    /\ pc' = "idle"
    /\ prev' = [mode |-> mode, start |-> start, key |-> key, value |-> value,
                target |-> target, found |-> found, ret |-> ret,
                full |-> FullyConnected(nodes0), changed |-> nodes # nodes0]
    /\ mode' = "NONE" /\ start' = <<>> /\ key' = 0 /\ value' = NoValue
    /\ target' = <<>> /\ queried' = <<>> /\ shortlist' = <<>> /\ batch' = <<>>
    /\ step' = 0 /\ any_progress' = FALSE /\ closest' = <<>>
    /\ found' = NoValue /\ ret' = <<>> /\ round0' = <<>>
    /\ trace' = <<>>
    /\ nodes0' = nodes
    /\ UNCHANGED <<nodes, ops, script>>

LookupStep ==
    \/ BeginRound
    \/ QueryPeer
    \/ EndRound
    \/ Finalize
    \/ StoreNext
    \/ StoreDone
    \/ Return

Next ==
    \/ \E id \in Ids : AddNode(id)
    \/ \E from \in Ids, to \in Ids : Ping(from, to)
    \/ \E from \in Ids, to \in Ids, k \in CallKeys, v \in Values :
          Store(from, to, k, v)
    \/ \E from \in Ids, to \in Ids, k \in CallKeys : FindValue(from, to, k)
    \/ \E from \in Ids, to \in Ids, tgt \in Ids : FindNode(from, to, tgt)
    \/ \E s \in Ids, tgt \in Ids : IterativeFindNode(s, tgt)
    \/ \E s \in Ids, k \in CallKeys : IterativeFindValue(s, k)
    \/ \E s \in Ids, k \in CallKeys, v \in Values : IterativeStore(s, k, v)
    \/ LookupStep

Spec == Init /\ [][Next]_vars

(* ------------------------------------------------------------------ *)
(* Seeded networks. In Ring(n, w, d) the identifiers are 0..n, those  *)
(* numbered by a multiple of d are registered, and node i was pinged  *)
(* by i-w, ..., i-1 (modulo n+1) in that order: a state the pings of  *)
(* main's kind reach. w = 1 is a cycle, w = n has every node know     *)
(* every identifier, and for d > 1 some identifiers are unreachable.  *)
(* ------------------------------------------------------------------ *)
RingPeers(i, n, w) ==
    [x \in 1..w |-> from_bytes(((i + n + 1) - (w + 1 - x)) % (n + 1))]

Ring(n, w, d) ==
    [id \in {from_bytes(i) : i \in {x \in 0..n : x % d = 0}} |->
        LET i == CHOOSE x \in 0..n : from_bytes(x) = id
        IN [id |-> id, storage |-> [k \in Keys |-> NoValue],
            peers |-> RingPeers(i, n, w)]]

Min(a, b) == IF a < b THEN a ELSE b

\* Every identifier the network has heard of.
Known(ns) ==
    (DOMAIN ns) \cup UNION {{ns[a].peers[i] : i \in 1..Len(ns[a].peers)} : a \in DOMAIN ns}

Seeded(ns, calls) ==
    /\ nodes = ns
    /\ pc = "idle"
    /\ LookupIdle
    /\ trace = <<>>
    /\ nodes0 = ns
    /\ prev = NoPrev
    /\ ops = calls
    /\ script = <<>>

InitLookup ==
    \/ \E w \in 0..MaxSmallId, d \in 1..(MaxSmallId + 1) :
          Seeded(Ring(MaxSmallId, w, d), 2)
    \/ \E w \in 1..Min(K, MaxBigId), d \in 1..(MaxBigId + 1) :
          Seeded(Ring(MaxBigId, w, d), 1)

NextLookup ==
    \/ \E s \in DOMAIN nodes, tgt \in Known(nodes) : IterativeFindNode(s, tgt)
    \/ \E s \in DOMAIN nodes, k \in CallKeys : IterativeFindValue(s, k)
    \/ \E s \in DOMAIN nodes, k \in CallKeys, v \in Values :
          IterativeStore(s, k, v)
    \/ LookupStep

SpecLookup == InitLookup /\ [][NextLookup]_vars

(* ------------------------------------------------------------------ *)
(* Single RPCs on the seeded networks of identifiers 0..MaxBigId in   *)
(* which nodes 0 and MaxBigId are registered, both holding the value  *)
(* sv under every key (0: nothing).                                   *)
(* ------------------------------------------------------------------ *)
BigIds == {from_bytes(i) : i \in 0..MaxBigId}

WithValue(ns, sv) ==
    [id \in DOMAIN ns |-> [ns[id] EXCEPT !.storage = [k \in Keys |-> sv]]]

InitRpc ==
    \E w \in 0..Min(K, MaxBigId), sv \in 0..MaxVal :
        Seeded(WithValue(Ring(MaxBigId, w, MaxBigId), sv), 1)

NextRpc ==
    \/ \E from \in BigIds, to \in BigIds : Ping(from, to)
    \/ \E from \in BigIds, to \in BigIds, k \in Keys, v \in Values :
          Store(from, to, k, v)
    \/ \E from \in BigIds, to \in BigIds, k \in Keys : FindValue(from, to, k)
    \/ \E from \in BigIds, to \in BigIds, tgt \in BigIds : FindNode(from, to, tgt)

SpecRpc == InitRpc /\ [][NextRpc]_vars

(* ------------------------------------------------------------------ *)
(* main (lines 288-320): three nodes, three pings, an iterative store *)
(* from node 1, an iterative find_value from node 2 and an iterative  *)
(* find_node for node 2 from node 0.                                  *)
(* ------------------------------------------------------------------ *)
Call(op, a, b, k, v) == [op |-> op, a |-> a, b |-> b, k |-> k, v |-> v]

MainCalls(id0, id1, id2, k, v) ==
    << Call("add_node", id0, id0, k, v),
       Call("add_node", id1, id1, k, v),
       Call("add_node", id2, id2, k, v),
       Call("ping", id1, id0, k, v),
       Call("ping", id2, id0, k, v),
       Call("ping", id2, id1, k, v),
       Call("iterative_store", id1, id1, k, v),
       Call("iterative_find_value", id2, id2, k, v),
       Call("iterative_find_node", id0, id2, k, v) >>

MainIds == {from_bytes(i) : i \in 0..MaxMainId}

InitMain ==
    \E id0 \in MainIds, id1 \in MainIds, id2 \in MainIds,
       k \in Keys, v \in Values :
        /\ id0 # id1 /\ id0 # id2 /\ id1 # id2
        /\ nodes = NoNodes
        /\ pc = "idle"
        /\ LookupIdle
        /\ trace = <<>>
        /\ nodes0 = NoNodes
        /\ prev = NoPrev
        /\ script = MainCalls(id0, id1, id2, k, v)
        /\ ops = Len(script)

MainStep ==
    /\ script # <<>>
    /\ LET c == Head(script)
       IN CASE c.op = "add_node" -> AddNode(c.a)
            [] c.op = "ping" -> Ping(c.a, c.b)
            [] c.op = "iterative_store" -> IterativeStore(c.a, c.k, c.v)
            [] c.op = "iterative_find_value" -> IterativeFindValue(c.a, c.k)
            [] OTHER -> IterativeFindNode(c.a, c.b)

NextMain ==
    \/ MainStep
    \/ LookupStep

SpecMain == InitMain /\ [][NextMain]_vars

(* ================================================================== *)
(* The claims.                                                        *)
(* ================================================================== *)
Last(list) == list[Len(list)]

Elems(list) == {list[i] : i \in 1..Len(list)}

NoDuplicates(list) ==
    \A i \in 1..Len(list) : \A j \in 1..Len(list) : list[i] = list[j] => i = j

\* The running procedure is the same call as the one completed just before.
SameCallAgain(m) ==
    /\ pc = "done" /\ mode = m /\ prev.mode = m
    /\ prev.start = start /\ prev.target = target /\ prev.key = key

\* C1: an iterative STORE(s, k, v) followed at once by an iterative
\* FIND_VALUE(s, k) from the same registered start s returns v.
C1_StoreThenFindValue ==
    (/\ pc = "done" /\ mode = "FIND_VALUE"
     /\ prev.mode = "STORE" /\ prev.start = start /\ prev.key = key
     /\ start \in DOMAIN nodes)
    => found = prev.value

\* C2: in main's scenario (three fresh nodes, pings 1->0, 2->0, 2->1, a
\* store from node 1) the find_value from node 2 returns the stored value,
\* whatever distinct identifiers the three nodes drew.
C2_MainFindsValue ==
    (pc = "done" /\ mode = "FIND_VALUE" /\ script # <<>>)
    => (found = Head(script).v /\ found # NoValue)

C2_Witness ==
    /\ pc = "done" /\ mode = "FIND_VALUE" /\ Len(script) = 1
    /\ prev.mode = "STORE" /\ found = prev.value
    /\ Cardinality(DOMAIN nodes) = 3
    /\ \E a \in DOMAIN nodes : nodes[a].storage[key] = NoValue

\* C3: on a fully connected node set, running iterative_find_node a second
\* time from the same start for the same target, with nothing in between,
\* returns the list the first run returned.
C3_FindNodeIdempotent ==
    (SameCallAgain("FIND_NODE") /\ prev.full) => ret = prev.ret

C3_Witness ==
    /\ SameCallAgain("FIND_NODE") /\ prev.full /\ prev.changed
    /\ Cardinality(DOMAIN nodes) >= 2
    /\ Len(ret) >= 3
    /\ ret = prev.ret

\* The places in the trace of the RPCs of kind op the current call sent.
RpcsTo(op) == {i \in 1..Len(trace) : trace[i].op = op}

\* The rounds, queries and RPCs of the running procedure are bounded, and
\* it is at a place from which one of its steps can be taken.
Bounded ==
    /\ step <= MAX_STEPS
    /\ Len(batch) <= ALPHA
    /\ Len(queried) <= ALPHA * step
    /\ Cardinality(RpcsTo("find_node")) <= ALPHA * MAX_STEPS
    /\ Cardinality(RpcsTo("find_value")) <= ALPHA * MAX_STEPS
    /\ Cardinality(RpcsTo("store")) <= K
    /\ pc \in {"idle", "round", "query", "final", "store", "done"}
    /\ pc = "idle" => mode = "NONE"

\* An upper bound on the steps the running procedure still takes: what is
\* left of the round, the rounds not begun, and the part after the loop.
RoundCost == ALPHA + 2
AfterLoop == K + 3
Remaining ==
    CASE pc = "round" -> ((MAX_STEPS - step) * RoundCost) + 1 + AfterLoop
      [] pc = "query" -> ((MAX_STEPS - step) * RoundCost) + 1 + AfterLoop
                         + Len(batch) + 1
      [] pc = "final" -> AfterLoop
      [] pc = "store" -> Len(closest) + 2
      [] pc = "done" -> 1
      [] OTHER -> 0

\* C4: every iterative procedure terminates: it runs at most MAX_STEPS
\* rounds, queries at most ALPHA peers in each, and each of its steps
\* brings it nearer to its return.
C4_BoundedRounds ==
    /\ [](Bounded /\ Remaining >= 0)
    /\ [][pc # "idle" => Remaining' < Remaining]_vars

C4_Witness ==
    /\ pc = "final" /\ step = MAX_STEPS
    /\ Len(queried) > MAX_STEPS
    /\ pick_batch(shortlist, queried, <<>>) # <<>>
    /\ any_progress

\* C5: an iterative FIND_VALUE whose registered start has no reachable peer
\* (an empty peer list, or only unregistered identifiers in it) stays
\* within MAX_STEPS rounds and returns None.
C5_NoPeersNotFound ==
    (/\ pc = "done" /\ mode = "FIND_VALUE"
     /\ start \in DOMAIN nodes0
     /\ \A p \in Elems(nodes0[start].peers) : p \notin DOMAIN nodes0)
    => (found = NoValue /\ step <= MAX_STEPS)

\* C6: no node's peer list ever holds the node's own identifier.
C6_NoSelfInPeers ==
    \A a \in DOMAIN nodes : ~contains(nodes[a].peers, a)

C6_Witness ==
    \E i \in 1..Len(trace) :
        /\ trace[i].some /\ trace[i].from = trace[i].to
        /\ trace[i].before # <<>>
        /\ trace[i].before = trace[i].after

\* C7: no node's peer list ever holds more than K entries.
C7_AtMostK ==
    \A a \in DOMAIN nodes : Len(nodes[a].peers) <= K

C7_Witness ==
    \E i \in 1..Len(trace) :
        /\ trace[i].some /\ trace[i].from # trace[i].to
        /\ Len(trace[i].before) = K
        /\ ~contains(trace[i].before, trace[i].from)
        /\ Len(trace[i].after) = K

\* The reference LRU list of capacity K owned by owner, touched by peer.
LruTouch(owner, table, peer) ==
    LET others == SelectSeq(table, LAMBDA x : x # peer)
    IN IF peer = owner THEN table
       ELSE IF contains(table, peer) \/ Len(table) < K
       THEN Append(others, peer)
       ELSE Append(Tail(table), peer)

\* The order of the entries of `table` other than x is kept in `after`.
KeepsOrder(table, after, x) ==
    SelectSeq(after, LAMBDA y : y # x) = SelectSeq(table, LAMBDA y : y # x)

\* C8: track_peer is the LRU touch: the owner's own id changes nothing; a
\* peer already present moves to the most recent place, the size and the
\* order of the others unchanged; a new peer is appended and, only when
\* the list held K entries, exactly the least recent entry is dropped.
C8_TrackPeerIsLru ==
    \A i \in 1..Len(trace) :
        LET r == trace[i]
        IN r.some =>
            /\ r.after = LruTouch(r.to, r.before, r.from)
            /\ r.from = r.to => r.after = r.before
            /\ (r.from # r.to /\ contains(r.before, r.from)) =>
                  /\ Last(r.after) = r.from
                  /\ Len(r.after) = Len(r.before)
                  /\ KeepsOrder(r.before, r.after, r.from)
            /\ (r.from # r.to /\ ~contains(r.before, r.from)) =>
                  /\ Last(r.after) = r.from
                  /\ IF Len(r.before) = K
                     THEN /\ Len(r.after) = K
                          /\ ~contains(r.after, r.before[1])
                          /\ KeepsOrder(Tail(r.before), r.after, r.from)
                     ELSE /\ Len(r.after) = Len(r.before) + 1
                          /\ KeepsOrder(r.before, r.after, r.from)

C8_Witness ==
    \E i \in 1..Len(trace) :
        /\ trace[i].some /\ trace[i].from # trace[i].to
        /\ Len(trace[i].before) = K
        /\ contains(trace[i].before, trace[i].from)
        /\ trace[i].before[2] = trace[i].from
        /\ trace[i].after # trace[i].before

\* C9: an RPC delivered to h from a caller c # h leaves c the most recent
\* entry of h's peer list, and a find_node answer is made from the list as
\* it is after that: it holds the list's entries, the caller among them.
C9_CallerRecordedFirst ==
    \A i \in 1..Len(trace) :
        LET r == trace[i]
        IN (r.some /\ r.from # r.to) =>
            /\ r.after # <<>>
            /\ Last(r.after) = r.from
            /\ r.op = "find_node" =>
                  /\ Elems(r.resp) = Elems(r.after)
                  /\ contains(r.resp, r.from)

C9_Witness ==
    \E i \in 1..Len(trace) :
          /\ trace[i].op = "find_node" /\ trace[i].some
          /\ trace[i].from # trace[i].to
          /\ ~contains(trace[i].before, trace[i].from)
          /\ Len(trace[i].before) = K
          /\ contains(trace[i].resp, trace[i].from)

\* list is in non-decreasing XOR distance to tgt.
SortedBy(tgt, list) ==
    \A i \in 1..Len(list) : \A j \in 1..Len(list) :
        i < j => by_distance(tgt, list[i], list[j]) # "Greater"

\* C10: the list a node returns for find_node(target) is in non-decreasing
\* XOR distance to target, has at most K and at most as many entries as the
\* node's peer list, holds only entries of that list, and never the
\* answering node's own identifier.
C10_FindNodeAnswer ==
    \A i \in 1..Len(trace) :
        LET r == trace[i]
        IN (r.op = "find_node" /\ r.some) =>
            /\ SortedBy(r.arg, r.resp)
            /\ Len(r.resp) <= K
            /\ Len(r.resp) <= Len(r.after)
            /\ Elems(r.resp) \subseteq Elems(r.after)
            /\ NoDuplicates(r.resp)
            /\ ~contains(r.resp, r.to)

C10_Witness ==
    \E i \in 1..Len(trace) :
        /\ trace[i].op = "find_node" /\ trace[i].some
        /\ Len(trace[i].resp) = K
        /\ trace[i].resp # trace[i].after
        /\ trace[i].resp[1] = trace[i].arg

\* C11: an RPC changes nothing outside the node handling it; ping,
\* find_value and find_node leave the handler's storage as it was, and
\* store changes in it the entry of the given key only, which then holds
\* the given value whatever it held before.
C11_RpcFrame ==
    \A i \in 1..Len(trace) :
        LET r == trace[i]
        IN /\ r.others
           /\ (r.some /\ r.op \in {"ping", "find_value", "find_node"}) =>
                 r.safter = r.sbefore
           /\ (r.some /\ r.op = "store") =>
                 /\ r.safter = [r.sbefore EXCEPT ![r.arg[1]] = r.arg[2]]
                 /\ \A k \in Keys \ {r.arg[1]} : r.safter[k] = r.sbefore[k]

C11_Witness ==
    \E i \in 1..Len(trace) :
        /\ trace[i].op = "store" /\ trace[i].some
        /\ trace[i].sbefore[trace[i].arg[1]] \notin {NoValue, trace[i].arg[2]}
        /\ \E k \in Keys \ {trace[i].arg[1]} : trace[i].safter[k] # NoValue
        /\ trace[i].after # trace[i].before
        /\ Cardinality(DOMAIN nodes) >= 2

\* C12: a lookup that stopped before MAX_STEPS rounds had run did not learn
\* anything in its last round: every identifier of its shortlist was in
\* the shortlist already when that round began.
C12_NewIdMeansAnotherRound ==
    (pc = "final" /\ step < MAX_STEPS) =>
        Elems(shortlist) \subseteq Elems(round0)

\* C13: no RPC of an iterative procedure is handled by its own start: the
\* caller of every find_node, find_value and store it gets delivered
\* differs from the node handling the call.
C13_NoSelfRpc ==
    mode # "NONE" =>
        \A i \in 1..Len(trace) :
            trace[i].some => trace[i].from # trace[i].to

\* C14: a round that leaves the shortlist exactly as it found it is the
\* last one: the procedure sends no RPC of a further round.
C14_UnchangedMeansConverged ==
    (pc = "round" /\ step >= 1 /\ shortlist = round0) =>
        ~(more_steps(step) /\ pick_batch(shortlist, queried, <<>>) # <<>>)

\* Every identifier the running lookup has come across: its start, the
\* start's peer list when it began, and the answers to its find_node calls.
Encountered ==
    {start} \cup Elems(snapshot_peers(nodes0, start))
            \cup UNION {Elems(trace[i].resp) :
                           i \in {j \in RpcsTo("find_node") : trace[j].some}}

\* list holds the n identifiers of the set S nearest to tgt, nearest first.
ClosestOf(tgt, S, list, n) ==
    /\ NoDuplicates(list)
    /\ SortedBy(tgt, list)
    /\ Elems(list) \subseteq S
    /\ Len(list) = Min(n, Cardinality(S))
    /\ \A x \in S \ Elems(list) : \A i \in 1..Len(list) :
           by_distance(tgt, list[i], x) = "Less"

\* C15: when a round begins and when the loop is left, the shortlist has no
\* duplicates, is sorted by XOR distance to the target, has at most K
\* entries and holds the K nearest of the identifiers come across so far;
\* iterative_find_node returns that shortlist.
C15_ShortlistIsKClosest ==
    (mode # "NONE" /\ pc \in {"round", "final", "store", "done"}) =>
        /\ Len(shortlist) <= K
        /\ ClosestOf(target, Encountered, shortlist, K)
        /\ (pc \in {"store", "done"} /\ mode # "FIND_VALUE") => ret = shortlist

C15_Witness ==
    /\ pc = "done" /\ mode = "FIND_NODE"
    /\ step >= 2
    /\ Cardinality(Encountered) > K
    /\ Len(ret) = K
    /\ Elems(ret) # Elems(initial_shortlist(nodes0, start, target))

\* The RPCs of kind op the running procedure sent reach distinct nodes.
OncePerPeer(op) ==
    \A i \in RpcsTo(op) : \A j \in RpcsTo(op) :
        trace[i].to = trace[j].to => i = j

\* C16: within one lookup no identifier is queried twice: queried has no
\* duplicates, an identifier is in queried when an RPC to it is sent, and
\* it gets at most one find_node and at most one find_value, whether it
\* is registered or not.
C16_NoPeerQueriedTwice ==
    mode # "NONE" =>
        /\ NoDuplicates(queried)
        /\ OncePerPeer("find_node")
        /\ OncePerPeer("find_value")
        /\ \A i \in RpcsTo("find_node") \cup RpcsTo("find_value") :
               contains(queried, trace[i].to)

C16_Witness ==
    /\ pc = "final" /\ mode = "FIND_VALUE" /\ step >= 2
    /\ Len(queried) > ALPHA
    /\ \E i \in RpcsTo("find_value") : ~trace[i].some
    /\ \E i \in RpcsTo("find_value") : trace[i].some
    /\ Cardinality(RpcsTo("find_node")) = Len(queried)

\* C17: iterative_find_value returns the first value a find_value call
\* yields, which is what the node asked held under the key, and sends
\* nothing after that call; it returns None only if none yielded a value.
C17_FindValueShortCircuits ==
    mode = "FIND_VALUE" =>
        /\ \A i \in RpcsTo("find_value") :
               (trace[i].some /\ trace[i].resp # NoValue) =>
                   /\ i = Len(trace)
                   /\ pc = "done"
                   /\ found = trace[i].resp
                   /\ found = trace[i].sbefore[key]
        /\ found # NoValue =>
               /\ pc = "done" /\ trace # <<>>
               /\ Last(trace).op = "find_value" /\ Last(trace).resp = found
        /\ (pc = "done" /\ found = NoValue) =>
               \A i \in RpcsTo("find_value") :
                   trace[i].some => trace[i].sbefore[key] = NoValue

C17_Witness ==
    /\ pc = "done" /\ mode = "FIND_VALUE" /\ found # NoValue
    /\ Len(batch) >= 2
    /\ Len(trace) >= 3
    /\ pick_batch(shortlist, queried \o batch, <<>>) # <<>>

\* The identifiers the RPCs of kind op went to, in the order of the calls.
Addressees(op) ==
    LET sent == SelectSeq(trace, LAMBDA r : r.op = op)
    IN [i \in 1..Len(sent) |-> sent[i].to]

\* C18: when iterative_store returns it has run the lookup for the key's
\* identifier and then sent one store to each identifier of the list the
\* lookup returned: every registered node of the list holds the value
\* under the key, and the storage of every node outside it is as it was.
C18_StoreReachesTheList ==
    (pc = "done" /\ mode = "STORE") =>
        /\ target = key_to_id(key)
        /\ ret = shortlist
        /\ Addressees("store") = ret
        /\ RpcsTo("find_value") = {}
        /\ \A i \in RpcsTo("find_node") : \A j \in RpcsTo("store") : i < j
        /\ \A a \in DOMAIN nodes :
               IF contains(ret, a)
               THEN nodes[a].storage = [nodes0[a].storage EXCEPT ![key] = value]
               ELSE nodes[a].storage = nodes0[a].storage

C18_Witness ==
    /\ pc = "done" /\ mode = "STORE"
    /\ Len(ret) >= 3
    /\ \E a \in DOMAIN nodes : ~contains(ret, a)
    /\ \E a \in DOMAIN nodes : a # start /\ contains(ret, a)
    /\ \E a \in Elems(ret) : a \notin DOMAIN nodes

\* The step about to be taken queries the next peer of the batch.
QueryStep == pc = "query" /\ batch # <<>> /\ queried' # queried

\* Every RPC sent so far was reported unreachable exactly when no node is
\* registered under its addressee, and then no node was changed by it.
UnreachableReported ==
    \A i \in 1..Len(trace) :
        /\ trace[i].some = (trace[i].to \in DOMAIN nodes)
        /\ ~trace[i].some =>
              /\ trace[i].others
              /\ trace[i].before = trace[i].after
              /\ trace[i].sbefore = trace[i].safter

\* C19: an RPC to an identifier with no registered node is reported as
\* unreachable (None), which no answer of a registered node is, and changes
\* no node; a lookup that queries such an identifier keeps its shortlist
\* and its progress flag as they were, as it does when a registered node
\* answers find_node with the empty list.
C19_UnreachableIsNoProgress ==
    /\ []UnreachableReported
    /\ [][(/\ QueryStep
           /\ \/ ~Last(trace').some
              \/ /\ Last(trace').op = "find_node"
                 /\ Last(trace').resp = <<>>)
          => /\ shortlist' = shortlist
             /\ any_progress' = any_progress
             /\ queried' = Append(queried, Head(batch))
             /\ ~Last(trace').some => nodes' = nodes]_vars

C19_Witness ==
    /\ pc = "query" /\ any_progress
    /\ trace # <<>> /\ ~Last(trace).some
    /\ Last(trace).to = Last(queried)
    /\ shortlist # round0
    /\ \E i \in 1..Len(trace) : trace[i].some /\ trace[i].from # trace[i].to

\* C20: an iterative find_node or find_value from start s changes no
\* node's storage and not s itself; a registered node other than s that it
\* queried has had s touched in its peer list (s most recent, the least
\* recent entry dropped if the list was full and s new), and every node it
\* did not query is as it was.
C20_LookupFrame ==
    mode \in {"FIND_NODE", "FIND_VALUE"} =>
        /\ DOMAIN nodes = DOMAIN nodes0
        /\ \A a \in DOMAIN nodes :
               /\ nodes[a].storage = nodes0[a].storage
               /\ nodes[a].id = nodes0[a].id
               /\ nodes[a].peers =
                     IF contains(queried, a) /\ a # start
                     THEN LruTouch(a, nodes0[a].peers, start)
                     ELSE nodes0[a].peers

C20_Witness ==
    /\ pc = "done" /\ mode \in {"FIND_NODE", "FIND_VALUE"}
    /\ contains(queried, start)
    /\ \E a \in DOMAIN nodes :
          /\ a # start /\ contains(queried, a)
          /\ Len(nodes0[a].peers) = K
          /\ ~contains(nodes0[a].peers, start)
          /\ ~contains(nodes[a].peers, nodes0[a].peers[1])
    /\ \E a \in DOMAIN nodes :
          /\ a # start /\ contains(queried, a)
          /\ contains(nodes0[a].peers, start)
          /\ nodes[a].peers # nodes0[a].peers
    /\ \E a \in DOMAIN nodes : ~contains(queried, a)

====
